---- MODULE Spec2Model ----
(***************************************************************************)
(* A model of rank.py, the AP EAMCET college predictor: the table that     *)
(* load_data() builds from the spreadsheet, the form of main(), and the    *)
(* submit branch of main() (validation of the rank, the categorical        *)
(* filters, the numeric coercion of the chosen rank column, the tolerance  *)
(* window, the projection, the sort and the reporting of the outcome).     *)
(*                                                                         *)
(* Text is a sequence of characters, each a one-character string ("sup2"   *)
(* stands for the single character U+00B2, superscript two).  A column     *)
(* name is a sequence of name fragments, so that the substring test of     *)
(* get_rank_columns is a test on fragments.  A cell is a record            *)
(* [k, n, s]: k = "nan" (empty cell, NaN), k = "num" (number n) or         *)
(* k = "str" (text s).  A data frame is [columns, rows], rows a sequence   *)
(* of [idx, cells]: idx is the pandas index label, cells maps each column  *)
(* name to a cell.                                                         *)
(***************************************************************************)
EXTENDS Integers, Sequences, FiniteSets, TLC

VARIABLES
    xlsx,               \* the sheet apc.xlsx, header row promoted
    df,                 \* main's df in the current script run
    pc,                 \* "form": waiting for a submit; "done": a submit run ended
    caste_gender,       \* form values delivered by the last submit
    selected_rank,
    selected_branches,
    selected_dists,
    selected_regions,
    banner,             \* "none", "error", "success" or "warning"
    raised,             \* "none", or the exception that ended the run
    rank,               \* main's rank, -1 while unassigned
    result_df,          \* main's result_df, NoFrame while unassigned
    shown,              \* the frame given to st.dataframe, NoFrame if none
    download            \* the download button: [offered, doc]

vars == <<xlsx, df, pc, caste_gender, selected_rank, selected_branches,
          selected_dists, selected_regions, banner, raised, rank, result_df,
          shown, download>>

\* ------------------------------------------------------------- bounds
MaxRows == 2
MaxRankLen == 1

\* ------------------------------------------------- program constants
LowOffset == 20000
HighOffset == 30000

\* ------------------------------------------------------------ helpers
Range(s) == {s[i] : i \in DOMAIN s}
Reverse(s) == [i \in 1..Len(s) |-> s[Len(s) + 1 - i]]
Max(a, b) == IF a >= b THEN a ELSE b

\* ------------------------------------------------------ python text
Whitespace == {" "}
Digits == {"0", "1", "2", "3", "4", "5", "6", "7", "8", "9"}
\* characters str.isdigit accepts that are not decimal digits
SuperDigits == {"sup2"}
DigitVal == ("0" :> 0) @@ ("1" :> 1) @@ ("2" :> 2) @@ ("3" :> 3) @@ ("4" :> 4)
            @@ ("5" :> 5) @@ ("6" :> 6) @@ ("7" :> 7) @@ ("8" :> 8) @@ ("9" :> 9)

RECURSIVE lstrip(_)
lstrip(s) == IF s # <<>> /\ Head(s) \in Whitespace THEN lstrip(Tail(s)) ELSE s

\* str.strip()
strip(s) == Reverse(lstrip(Reverse(lstrip(s))))

\* str.isdigit(): non-empty and every character has the Unicode digit property
isdigit(s) == s # <<>> /\ \A i \in DOMAIN s : s[i] \in Digits \cup SuperDigits

IsDecimal(s) == s # <<>> /\ \A i \in DOMAIN s : s[i] \in Digits
Unsigned(s) == IF s # <<>> /\ Head(s) \in {"+", "-"} THEN Tail(s) ELSE s

RECURSIVE DecimalValue(_)
DecimalValue(s) ==
    IF s = <<>> THEN 0
    ELSE 10 * DecimalValue(SubSeq(s, 1, Len(s) - 1)) + DigitVal[s[Len(s)]]

\* int(s) raises ValueError unless s is, after surrounding whitespace, an
\* optional sign and decimal digits
int_raises(s) == ~IsDecimal(Unsigned(strip(s)))
int(s) ==
    LET t == strip(s)
    IN  IF Head(t) = "-" THEN 0 - DecimalValue(Tail(t)) ELSE DecimalValue(Unsigned(t))

\* ------------------------------------------------------------- cells
NaN == [k |-> "nan", n |-> 0, s |-> <<>>]
Num(n) == [k |-> "num", n |-> n, s |-> <<>>]
Str(s) == [k |-> "str", n |-> 0, s |-> s]

\* Series.replace(r'^\s*$', np.nan, regex=True) on one cell
replace_blank(c) ==
    IF c.k = "str" /\ (\A i \in DOMAIN c.s : c.s[i] \in Whitespace) THEN NaN ELSE c

\* to_numeric with the cells that do not parse filled with 0
to_numeric_fillzero(c) ==
    CASE c.k = "num" -> c
      [] c.k = "str" /\ ~int_raises(c.s) -> Num(int(c.s))
      [] OTHER -> Num(0)

\* pd.to_numeric(..., errors='coerce') on one cell (integer-valued text only)
to_numeric(c) ==
    CASE c.k = "num" -> c
      [] c.k = "str" /\ ~int_raises(c.s) -> Num(int(c.s))
      [] OTHER -> NaN

\* Series.astype(str).str.strip() on one cell; str(NaN) is 'nan'
astype_str_strip(c) ==
    CASE c.k = "str" -> Str(strip(c.s))
      [] c.k = "nan" -> Str(<<"n", "a", "n">>)
      [] OTHER -> c

\* ------------------------------------------------------ column names
INSTCODE == <<"INSTCODE">>
NAME == <<"NAME OF THE INSTITUTION">>
INST_REG == <<"INST_REG">>
DIST == <<"DIST">>
A_REG == <<"A_REG">>
branch_code == <<"branch_code">>
PLACE == <<"PLACE">>
COLLFEE == <<"COLLFEE">>
OC_BOYS == <<"OC", "_BOYS">>
SC_GIRLS == <<"SC", "_GIRLS">>
OC_MALE == <<"OC", "_MALE">>
SC_FEMALE == <<"SC", "_FEMALE">>
\* the value of st.selectbox when it has no options
None == <<"<None>">>

\* ------------------------------------------------------- data frames
NoFrame == [columns |-> <<>>, rows |-> <<>>]
HasCol(d, col) == col \in Range(d.columns)
Column(d, col) == [i \in DOMAIN d.rows |-> d.rows[i].cells[col]]
Indexes(d) == {d.rows[i].idx : i \in DOMAIN d.rows}
RowAt(d, ix) == CHOOSE r \in Range(d.rows) : r.idx = ix

\* df[col] = series
Assign(d, col, series) ==
    [d EXCEPT !.rows = [i \in DOMAIN d.rows |->
        [d.rows[i] EXCEPT !.cells[col] = series[i]]]]

\* df[mask], mask a sequence of booleans
RECURSIVE Masked(_, _)
Masked(rows, mask) ==
    IF rows = <<>> THEN <<>>
    ELSE (IF Head(mask) THEN <<Head(rows)>> ELSE <<>>) \o Masked(Tail(rows), Tail(mask))
Keep(d, mask) == [d EXCEPT !.rows = Masked(d.rows, mask)]

\* ---------------------------------------------------------- load_data
\* The sheet is modelled with its first row already promoted to the header
\* and the column names already stripped; what is left of load_data is the
\* normalisation of branch_code.
load_data(sheet) ==
    IF HasCol(sheet, branch_code)
    THEN Assign(sheet, branch_code,
                [i \in DOMAIN sheet.rows |->
                    astype_str_strip(sheet.rows[i].cells[branch_code])])
    ELSE sheet

\* --------------------------------------------------- get_rank_columns
get_rank_columns(d) ==
    SelectSeq(d.columns,
              LAMBDA col : \E i \in DOMAIN col : col[i] \in {"_BOYS", "_GIRLS"})

\* ------------------------------------------------------- generate_pdf
\* The document as the table it lays out: the header row and one row of
\* texts per record, an empty text for a null cell (the 50 character
\* truncation is beyond the lengths of the model's texts).
generate_pdf(d) ==
    [header |-> d.columns,
     body |-> [i \in DOMAIN d.rows |->
                  [j \in DOMAIN d.columns |->
                      LET c == d.rows[i].cells[d.columns[j]]
                      IN  IF c.k = "nan" THEN Str(<<>>) ELSE c]]]

NoDownload == [offered |-> FALSE, doc |-> [header |-> <<>>, body |-> <<>>]]

\* ------------------------------------------------------- main: form
\* options of a multiselect: sorted(df[col].dropna().unique()) if col in df else []
Options(d, col) ==
    IF HasCol(d, col) THEN {c \in Range(Column(d, col)) : c.k # "nan"} ELSE {}

\* what st.selectbox can return for the rank column
CasteGenderChoices(d) ==
    IF get_rank_columns(d) = <<>> THEN {None} ELSE Range(get_rank_columns(d))

\* ----------------------------------------------- main: submit branch
\* line 162: not selected_rank or not selected_rank.strip().isdigit()
RankRejected(sr) == sr = <<>> \/ ~isdigit(strip(sr))

\* lines 170-175: one categorical filter, applied only to a non-empty selection
IsinFilter(d, col, sel) ==
    IF sel # {} THEN Keep(d, [i \in DOMAIN d.rows |-> d.rows[i].cells[col] \in sel]) ELSE d

\* line 178
dropna(d, col) == Keep(d, [i \in DOMAIN d.rows |-> d.rows[i].cells[col].k # "nan"])

\* upper with a digit of the offset lost
upper_short(rk) == rk + 3000

\* lines 180-181
lower(rk) == Max(0, rk - LowOffset)
upper(rk) == rk + HighOffset

\* the window with its bounds excluded
InWindowStrict(c, rk) == c.n > lower(rk) /\ c.n < upper(rk)

\* line 182
InWindow(c, rk) == c.n >= lower(rk) /\ c.n <= upper(rk)
Window(d, col, rk) == Keep(d, [i \in DOMAIN d.rows |-> InWindow(d.rows[i].cells[col], rk)])

\* show_cols with PLACE after the rank column
show_cols_swapped(cg) ==
    <<INSTCODE, NAME, INST_REG, DIST, A_REG, branch_code, cg, PLACE, COLLFEE>>

\* lines 184-188
show_cols(cg) ==
    <<INSTCODE, NAME, INST_REG, DIST, A_REG, branch_code, PLACE, cg, COLLFEE>>
Project(d, cols) ==
    LET kept == SelectSeq(cols, LAMBDA col : HasCol(d, col))
    IN  [columns |-> kept,
         rows |-> [i \in DOMAIN d.rows |->
                      [idx |-> d.rows[i].idx,
                       cells |-> [col \in Range(kept) |-> d.rows[i].cells[col]]]]]

\* the frame left as the window filter ordered it
sort_values_skipped(d, col) == {d}

\* line 189: the frames sort_values may return.  The default sort kind is
\* not stable, so rows of equal value come in any order.
IsAscending(rows, col) ==
    \A i \in 1..(Len(rows) - 1) : rows[i].cells[col].n <= rows[i + 1].cells[col].n
sort_values(d, col) ==
    {[d EXCEPT !.rows = [i \in DOMAIN d.rows |-> d.rows[p[i]]]] :
        p \in {q \in Permutations(DOMAIN d.rows) :
                  IsAscending([i \in DOMAIN d.rows |-> d.rows[q[i]]], col)}}

Ended(d, b, e, rk) ==
    [df |-> d, banner |-> b, raised |-> e, rank |-> rk,
     result_df |-> NoFrame, shown |-> NoFrame, download |-> NoDownload]

\* the report that tests the frame for its columns, not for its rows
ReportNotNone(d, rk, res) ==
    [df |-> d, banner |-> "success", raised |-> "none", rank |-> rk,
     result_df |-> res, shown |-> res,
     download |-> [offered |-> TRUE, doc |-> generate_pdf(res)]]

\* lines 191-203
Report(d, rk, res) ==
    IF res.rows # <<>>
    THEN [df |-> d, banner |-> "success", raised |-> "none", rank |-> rk,
          result_df |-> res, shown |-> res,
          download |-> [offered |-> TRUE, doc |-> generate_pdf(res)]]
    ELSE [df |-> d, banner |-> "warning", raised |-> "none", rank |-> rk,
          result_df |-> res, shown |-> NoFrame, download |-> NoDownload]

\* lines 167-189 for an integer rank: the frames the pipeline may end with
Pipeline(d1, cg, rk, sb, sd, sg) ==
    LET f1 == IsinFilter(d1, branch_code, sb)
        f2 == IsinFilter(f1, DIST, sd)
        f3 == IsinFilter(f2, A_REG, sg)
        f4 == Assign(f3, cg, [i \in DOMAIN f3.rows |-> to_numeric(f3.rows[i].cells[cg])])
        f5 == dropna(f4, cg)
        f6 == Window(f5, cg, rk)
        f7 == Project(f6, show_cols(cg))
    IN  sort_values(f7, cg)

\* lines 161-203: the states in which a submit run of main may end.  A
\* lookup df[col] of a name that is no column raises KeyError.
main(d, cg, sr, sb, sd, sg) ==
    IF RankRejected(sr) THEN {Ended(d, "error", "none", 0 - 1)}
    ELSE IF int_raises(strip(sr)) THEN {Ended(d, "none", "ValueError", 0 - 1)}
    ELSE LET rk == int(strip(sr))
             d1 == Assign(d, cg, [i \in DOMAIN d.rows |-> replace_blank(d.rows[i].cells[cg])])
         IN  IF ~HasCol(d, cg) THEN {Ended(d, "none", "KeyError", rk)}
             ELSE IF \/ sb # {} /\ ~HasCol(d, branch_code)
                     \/ sd # {} /\ ~HasCol(d, DIST)
                     \/ sg # {} /\ ~HasCol(d, A_REG)
             THEN {Ended(d1, "none", "KeyError", rk)}
             ELSE {Report(d1, rk, res) : res \in Pipeline(d1, cg, rk, sb, sd, sg)}

\* ------------------------------------------------------- the sheets
SchemaFull ==
    <<INSTCODE, NAME, INST_REG, branch_code, DIST, A_REG, PLACE, COLLFEE,
      OC_BOYS, SC_GIRLS>>
\* a drifted sheet: INST_REG, DIST and PLACE are gone
SchemaDrift == <<INSTCODE, NAME, branch_code, A_REG, OC_BOYS, SC_GIRLS, COLLFEE>>
\* a sheet whose rank columns carry other markers
SchemaOther ==
    <<INSTCODE, NAME, INST_REG, branch_code, DIST, A_REG, PLACE, COLLFEE,
      OC_MALE, SC_FEMALE>>

CSE == Str(<<"C", "S", "E">>)
BranchCells == {CSE, Str(<<"E", "C", "E", " ">>)}
ATP == Str(<<"A", "T", "P">>)
DistCells == {ATP, NaN}
SVU == Str(<<"S", "V", "U">>)
RegCells == {SVU, NaN}
TenThousand == Str(<<"1", "0", "0", "0", "0">>)
RankCells ==
    {NaN, Str(<<" ", " ">>), Str(<<"N", "A">>), TenThousand,
     Num(0 - 1), Num(0), Num(9999), Num(60000), Num(60001)}

\* the rows a sheet is drawn from: one row of reference, the rows that differ
\* from it in one categorical cell, and the rows that differ in the rank cell
CatRows ==
    {r \in [b : BranchCells, d : DistCells, g : RegCells, oc : {TenThousand}] :
        Cardinality({f \in {"b", "d", "g"} : r[f] # [b |-> CSE, d |-> ATP, g |-> SVU][f]}) <= 1}
RankRows == [b : {CSE}, d : {ATP}, g : {SVU}, oc : RankCells]
RowChoices == CatRows \cup RankRows

SheetCell(i, c, col) ==
    CASE col = INSTCODE -> Num(100 + i)
      [] col = NAME -> Str(<<"J", "N", "T", "U">>)
      [] col = INST_REG -> Str(<<"O", "U">>)
      [] col = branch_code -> c.b
      [] col = DIST -> c.d
      [] col = A_REG -> c.g
      [] col = PLACE -> Str(<<"A", "T", "P", "R">>)
      [] col = COLLFEE -> Num(35000)
      [] col \in {OC_BOYS, OC_MALE} -> c.oc
      [] OTHER -> IF c.b = CSE THEN Str(<<" ">>) ELSE Num(25000)

Sheet(schema, choice) ==
    [columns |-> schema,
     rows |-> [i \in DOMAIN choice |->
                  [idx |-> i - 1,
                   cells |-> [col \in Range(schema) |-> SheetCell(i, choice[i], col)]]]]

\* the sheets whose columns differ vary less in their rows
DriftRows == [b : {CSE}, d : {ATP}, g : {SVU}, oc : {NaN, TenThousand, Num(60000), Num(60001)}]
OtherRows == [b : BranchCells, d : {ATP}, g : {SVU}, oc : {TenThousand}]
Choices(rows) == UNION {[1..n -> rows] : n \in 0..MaxRows}
Sheets ==
    {Sheet(SchemaFull, choice) : choice \in Choices(RowChoices)}
    \cup {Sheet(SchemaDrift, choice) : choice \in Choices(DriftRows)}
    \cup {Sheet(SchemaOther, choice) : choice \in Choices(OtherRows)}

\* ------------------------------------------------- the rank inputs
RankAlphabet == {"3", "sup2"}
RankInputs ==
    UNION {[1..n -> RankAlphabet] : n \in 0..MaxRankLen}
    \cup {<<"a", "b", "c">>, <<"-", "5">>, <<"0">>, <<"3", "0", "0", "0", "0">>,
          <<" ", "3", "0", "0", "0", "0", " ">>, <<" ">>}

\* ------------------------------------------------------ the machine
Init ==
    /\ xlsx \in Sheets
    /\ df = load_data(xlsx)
    /\ pc = "form"
    /\ caste_gender = None
    /\ selected_rank = <<>>
    /\ selected_branches = {}
    /\ selected_dists = {}
    /\ selected_regions = {}
    /\ banner = "none"
    /\ raised = "none"
    /\ rank = 0 - 1
    /\ result_df = NoFrame
    /\ shown = NoFrame
    /\ download = NoDownload

\* the user fills the form and presses the submit button: lines 143-203
Submit ==
    /\ pc = "form"
    /\ \E cg \in CasteGenderChoices(df), sr \in RankInputs,
          sb \in SUBSET Options(df, branch_code),
          sd \in SUBSET Options(df, DIST),
          sg \in SUBSET Options(df, A_REG) :
          \E out \in main(df, cg, sr, sb, sd, sg) :
             /\ caste_gender' = cg
             /\ selected_rank' = sr
             /\ selected_branches' = sb
             /\ selected_dists' = sd
             /\ selected_regions' = sg
             /\ df' = out.df
             /\ banner' = out.banner
             /\ raised' = out.raised
             /\ rank' = out.rank
             /\ result_df' = out.result_df
             /\ shown' = out.shown
             /\ download' = out.download
    /\ pc' = "done"
    /\ UNCHANGED xlsx

\* the page is loaded afresh: the script runs again from the top, line 139
\* loads the sheet again, and the form is back at its defaults
Reload ==
    /\ pc = "done"
    /\ pc' = "form"
    /\ df' = load_data(xlsx)
    /\ caste_gender' = None
    /\ selected_rank' = <<>>
    /\ selected_branches' = {}
    /\ selected_dists' = {}
    /\ selected_regions' = {}
    /\ banner' = "none"
    /\ raised' = "none"
    /\ rank' = 0 - 1
    /\ result_df' = NoFrame
    /\ shown' = NoFrame
    /\ download' = NoDownload
    /\ UNCHANGED xlsx

Next == Submit \/ Reload

Spec == Init /\ [][Next]_vars

\* ------------------------------------------- vocabulary of the claims
\* the table as load_data returned it
Loaded == load_data(xlsx)
\* a submit run that got past the validation and the lookups: the filter ran
Filtered == pc = "done" /\ raised = "none" /\ banner # "error"

\* a cell that holds a number, as a number or as text
NumericCell(c) == c.k = "num" \/ (c.k = "str" /\ IsDecimal(Unsigned(strip(c.s))))
ValueOf(c) == IF c.k = "num" THEN c.n ELSE int(c.s)

\* the row meets the selection for one dimension
Selected(row, col, sel) == sel = {} \/ row.cells[col] \in sel
Categorical(row) ==
    /\ Selected(row, branch_code, selected_branches)
    /\ Selected(row, DIST, selected_dists)
    /\ Selected(row, A_REG, selected_regions)
LowerBound == IF rank - LowOffset > 0 THEN rank - LowOffset ELSE 0
UpperBound == rank + HighOffset
InTolerance(c) ==
    NumericCell(c) /\ ValueOf(c) >= LowerBound /\ ValueOf(c) <= UpperBound
Qualifies(row) == Categorical(row) /\ InTolerance(row.cells[caste_gender])
QualifyingIn(T) == {row \in Range(T.rows) : Qualifies(row)}

\* the text of a rank input is a positive integer
PositiveInteger(sr) == IsDecimal(strip(sr)) /\ DecimalValue(strip(sr)) > 0

\* C1: every row of the result comes from a table row that meets every
\* non-empty selection and whose chosen rank cell is numeric, not blank, and
\* within [max(0, rank - 20000), rank + 30000].
C1_Sound ==
    Filtered =>
        LET T == Loaded
        IN  \A i \in DOMAIN result_df.rows :
                /\ result_df.rows[i].idx \in Indexes(T)
                /\ Qualifies(RowAt(T, result_df.rows[i].idx))

\* C1 witness: a window that contains 0 (rank <= 20000), a non-empty result
\* under a branch selection, and a table row with blank or non-numeric rank text.
C1_Witness ==
    /\ Filtered
    /\ rank <= LowOffset
    /\ result_df.rows # <<>>
    /\ selected_branches # {}
    /\ \E row \in Range(Loaded.rows) :
          row.cells[caste_gender].k = "str" /\ ~NumericCell(row.cells[caste_gender])

\* C2: when the result is not empty, every table row that meets all the
\* constraints is in the result.
C2_Complete ==
    (Filtered /\ result_df.rows # <<>>) =>
        \A row \in QualifyingIn(Loaded) : row.idx \in Indexes(result_df)

\* C2 witness: a non-empty result that leaves a table row out, with no
\* district selected.
C2_Witness ==
    /\ Filtered
    /\ result_df.rows # <<>>
    /\ selected_dists = {}
    /\ \E row \in Range(Loaded.rows) : row.idx \notin Indexes(result_df)
    /\ \E row \in QualifyingIn(Loaded) : row.cells[caste_gender].k = "str"

\* C3: a rank input that is not a positive integer is rejected with the
\* validation message and nothing is produced; a positive integer is accepted
\* and parsed to its value.
C3_Validation ==
    pc = "done" =>
        IF PositiveInteger(selected_rank)
        THEN banner # "error" /\ rank = DecimalValue(strip(selected_rank))
        ELSE banner = "error" /\ result_df = NoFrame /\ ~download.offered

\* C4: with a valid rank, a selected rank column that is no column of the
\* table ends in a reported outcome, never in a lookup failure.
C4_SchemaMismatch ==
    (pc = "done" /\ PositiveInteger(selected_rank) /\ ~HasCol(Loaded, caste_gender))
        => (raised = "none" /\ banner \in {"error", "warning"})

\* C5: a row that passes the categorical filters is in the result when its
\* rank value equals a bound of the window, and is not when its rank value is
\* one below the lower bound or one above the upper bound.
C5_InclusiveBounds ==
    Filtered =>
        \A row \in Range(Loaded.rows) :
            (Categorical(row) /\ NumericCell(row.cells[caste_gender])) =>
                LET v == ValueOf(row.cells[caste_gender])
                IN  /\ v \in {LowerBound, UpperBound} => row.idx \in Indexes(result_df)
                    /\ v \in {LowerBound - 1, UpperBound + 1} =>
                           row.idx \notin Indexes(result_df)

\* C5 witness: a rank above 20000, a row at the lower bound in the result and
\* a row one above the upper bound left out.
C5_Witness ==
    /\ Filtered
    /\ rank > LowOffset
    /\ \E row \in Range(Loaded.rows) :
          /\ NumericCell(row.cells[caste_gender])
          /\ ValueOf(row.cells[caste_gender]) = LowerBound
          /\ row.idx \in Indexes(result_df)
    /\ \E row \in Range(Loaded.rows) :
          /\ NumericCell(row.cells[caste_gender])
          /\ ValueOf(row.cells[caste_gender]) = UpperBound + 1
          /\ row.idx \notin Indexes(result_df)

C7_TableUnchanged == pc = "done" => df = Loaded

\* C8: the result given to st.dataframe and to generate_pdf is in ascending
\* order of the chosen rank column and holds each qualifying row exactly once.
C8_Ordered ==
    Filtered =>
        /\ \A i \in 1..(Len(result_df.rows) - 1) :
              result_df.rows[i].cells[caste_gender].n
                  <= result_df.rows[i + 1].cells[caste_gender].n
        /\ LET Q == QualifyingIn(Loaded)
           IN  /\ Indexes(result_df) = {row.idx : row \in Q}
               /\ Len(result_df.rows) = Cardinality(Q)
        /\ result_df.rows # <<>> =>
              /\ shown = result_df
              /\ Len(download.doc.body) = Len(result_df.rows)
              /\ \A j \in DOMAIN download.doc.header :
                    download.doc.header[j] = caste_gender =>
                        \A i \in 1..(Len(result_df.rows) - 1) :
                            download.doc.body[i][j].n <= download.doc.body[i + 1][j].n

\* C8 witness: two result rows that stand in the table in descending order of rank.
C8_Witness ==
    /\ Filtered
    /\ \E i, j \in DOMAIN result_df.rows :
          /\ i < j
          /\ result_df.rows[i].idx > result_df.rows[j].idx
          /\ result_df.rows[i].cells[caste_gender].n
                 < result_df.rows[j].cells[caste_gender].n

\* the fixed display list, with the chosen rank column in its place
FixedList ==
    <<INSTCODE, NAME, INST_REG, DIST, A_REG, branch_code, PLACE, caste_gender, COLLFEE>>

\* C9: the columns of the result are those of the fixed list that the table
\* has, in the order of the list, and every cell holds the value of the cell
\* of the row it comes from (the chosen rank column as the number it was
\* coerced to before the projection).
C9_Projection ==
    Filtered =>
        LET T == Loaded
        IN  /\ result_df.columns = SelectSeq(FixedList, LAMBDA col : HasCol(T, col))
            /\ \A i \in DOMAIN result_df.rows :
                  LET r == result_df.rows[i]
                      from == RowAt(T, r.idx)
                  IN  /\ DOMAIN r.cells = Range(result_df.columns)
                      /\ \A col \in Range(result_df.columns) :
                            r.cells[col] =
                                IF col = caste_gender
                                THEN Num(ValueOf(from.cells[col]))
                                ELSE from.cells[col]

\* C9 witness: a non-empty result from a table that lacks listed columns.
C9_Witness ==
    /\ Filtered
    /\ result_df.rows # <<>>
    /\ ~HasCol(Loaded, PLACE)
    /\ Len(result_df.columns) < Len(Loaded.columns)

\* C10: a rank input that passes the validation test is converted by int()
\* without raising.
C10_IntNeverRaises ==
    (pc = "done" /\ ~RankRejected(selected_rank)) => (raised # "ValueError" /\ rank >= 0)
====
